---- MODULE Spec2Model ----
(***************************************************************************)
(* Model of the gradient-based planner of pyRDDLGym-jax                    *)
(* (src/pyRDDLGym_jax/core/planner.py):                                    *)
(*   - the optimization driver JaxBackpropPlanner.optimize_generator and   *)
(*     its consumer JaxBackpropPlanner.optimize        (specification Spec)*)
(*   - the per-time-step projections of JaxStraightLinePlan onto the       *)
(*     max-nondef-actions constraint               (specification SpecProj)*)
(*   - RollingMean, guess_next_epoch, get_action, the two controllers and  *)
(*     two runs of the driver with one key: SpecRollingMean, SpecGuess,    *)
(*     SpecGetAction, SpecOffline, SpecOnline, SpecRepro                   *)
(***************************************************************************)
EXTENDS Integers, Sequences, FiniteSets, TLC

VARIABLES
    \* ---- optimize_generator: arguments
    epochs,                 \* argument epochs
    train_seconds,          \* argument train_seconds
    window,                 \* argument test_rolling_window
    guess,                  \* argument guess: <<>> (None) or <<parameters>>
    \* ---- optimize_generator: wall clock
    now,                    \* value time.time() would return
    start_time,
    elapsed_outside_loop,
    \* ---- optimize_generator: locals
    pc,                     \* position of the generator / of optimize
    it,
    policy_params,
    best_params,
    best_loss,
    last_iter_improve,
    memory,                 \* RollingMean._memory
    total,                  \* RollingMean._total
    status,
    rec,                    \* the record most recently yielded
    nrec,                   \* number of records yielded so far
    nupd,                   \* number of calls of self.update so far
    returned,               \* <<>>, or <<value returned by optimize>>
    \* ---- JaxStraightLinePlan projection (one time step)
    ppc,                    \* "input", then "sorted", "sorted_again" or
                            \* "sogbofa", "sogbofa_again"
    wrap_sigmoid,
    allowed_actions,
    noop,
    params,                 \* parameters of the boolean actions at one step
    in_params,              \* the parameters handed to the projection
    converged,              \* the flag returned by the projection
    proj_iters              \* iterations of the while_loop of the projection

drv_vars == <<epochs, train_seconds, window, guess, now, start_time,
              elapsed_outside_loop, pc, it, policy_params, best_params,
              best_loss, last_iter_improve, memory, total, status, rec,
              nrec, nupd, returned>>
proj_vars == <<ppc, wrap_sigmoid, allowed_actions, noop, params, in_params,
               converged, proj_iters>>

(***************************************************************************)
(* Bounds of the model                                                     *)
(***************************************************************************)
MaxEpochs == 2
MaxBudget == 1
MaxWindow == 2

(***************************************************************************)
(* Floating point values: finite rationals n/d (d > 0), +inf, -inf, nan    *)
(***************************************************************************)
Fin(n) == [k |-> "fin", n |-> n, d |-> 1]
NaN == [k |-> "nan", n |-> 0, d |-> 1]
PInf == [k |-> "inf", n |-> 1, d |-> 1]
NInf == [k |-> "inf", n |-> -1, d |-> 1]

FNeg(a) == IF a.k = "nan" THEN NaN ELSE [a EXCEPT !.n = -a.n]

FAdd(a, b) ==
    IF a.k = "nan" \/ b.k = "nan" THEN NaN
    ELSE IF a.k = "inf" /\ b.k = "inf" THEN (IF a.n = b.n THEN a ELSE NaN)
    ELSE IF a.k = "inf" THEN a
    ELSE IF b.k = "inf" THEN b
    ELSE [k |-> "fin", n |-> a.n * b.d + b.n * a.d, d |-> a.d * b.d]

FSub(a, b) == FAdd(a, FNeg(b))

FDivInt(a, m) == IF a.k = "fin" THEN [a EXCEPT !.d = a.d * m] ELSE a

\* a < b on floats: false as soon as one side is nan
FLess(a, b) ==
    IF a.k = "nan" \/ b.k = "nan" THEN FALSE
    ELSE IF a.k = "inf" /\ b.k = "inf" THEN a.n < b.n
    ELSE IF a.k = "inf" THEN a.n < 0
    ELSE IF b.k = "inf" THEN b.n > 0
    ELSE a.n * b.d < b.n * a.d

FEq(a, b) ==
    /\ a.k # "nan" /\ b.k # "nan"
    /\ ~FLess(a, b) /\ ~FLess(b, a)

isfinite(a) == a.k = "fin"

(***************************************************************************)
(* JaxPlannerStatus                                                        *)
(***************************************************************************)
NORMAL == "NORMAL"
NO_PROGRESS == "NO_PROGRESS"
PRECONDITION_POSSIBLY_UNSATISFIED == "PRECONDITION_POSSIBLY_UNSATISFIED"
TIME_BUDGET_REACHED == "TIME_BUDGET_REACHED"
ITER_BUDGET_REACHED == "ITER_BUDGET_REACHED"
INVALID_GRADIENT == "INVALID_GRADIENT"

JaxPlannerStatus ==
    (NORMAL :> 0) @@ (NO_PROGRESS :> 1)
    @@ (PRECONDITION_POSSIBLY_UNSATISFIED :> 2)
    @@ (TIME_BUDGET_REACHED :> 3) @@ (ITER_BUDGET_REACHED :> 4)
    @@ (INVALID_GRADIENT :> 5)

is_failure_off_by_one(s) == JaxPlannerStatus[s] >= 4

is_failure_warning_too(s) == JaxPlannerStatus[s] >= 2

is_failure(s) == JaxPlannerStatus[s] >= 3

(***************************************************************************)
(* RollingMean                                                             *)
(***************************************************************************)
\* RollingMean.update(x): the new <<memory, total>> and the value returned
RollingMeanUpdate(mem, tot, w, x) ==
    LET tot1 == FAdd(tot, x)
        full == Len(mem) = w
        tot2 == IF full THEN FSub(tot1, Head(mem)) ELSE tot1
        mem2 == Append(IF full THEN Tail(mem) ELSE mem, x)
    IN  [memory |-> mem2, total |-> tot2,
         value |-> FDivInt(tot2, Len(mem2))]

(***************************************************************************)
(* optimize_generator                                                      *)
(***************************************************************************)
\* the values of the parameter table the update can produce
Params == {0, 1}
\* the wall-clock time that passes during an iteration, or while the caller
\* holds a record
TickValues == {0, 1}
TrainLossValues == {Fin(1), NaN}
TestLossValues == {Fin(1), Fin(2)}

NoRecord == [status |-> NORMAL, iteration |-> -1]

\* line 1523: the test that replaces the best checkpoint
ImprovesBest_or_equal(test_loss, bloss) ==
    FLess(test_loss, bloss) \/ FEq(test_loss, bloss)

ImprovesBest(test_loss, bloss) == FLess(test_loss, bloss)

\* lines 1499-1562: the status of an iteration, each test that holds
\* overwriting the status set before it
IterationStatus_budget_last(conv, elapsed, train_loss, grad_zero, i, n, budget) ==
    LET s0 == NORMAL
        s1 == IF ~conv THEN PRECONDITION_POSSIBLY_UNSATISFIED ELSE s0
        s2 == IF ~isfinite(train_loss) THEN INVALID_GRADIENT ELSE s1
        s3 == IF grad_zero THEN NO_PROGRESS ELSE s2
        s4 == IF elapsed >= budget THEN TIME_BUDGET_REACHED ELSE s3
        s5 == IF i >= n - 1 THEN ITER_BUDGET_REACHED ELSE s4
    IN  s5

IterationStatus(conv, elapsed, train_loss, grad_zero, i, n, budget) ==
    LET s0 == NORMAL
        s1 == IF ~conv THEN PRECONDITION_POSSIBLY_UNSATISFIED ELSE s0
        s2 == IF elapsed >= budget THEN TIME_BUDGET_REACHED ELSE s1
        s3 == IF i >= n - 1 THEN ITER_BUDGET_REACHED ELSE s2
        s4 == IF ~isfinite(train_loss) THEN INVALID_GRADIENT ELSE s3
        s5 == IF grad_zero THEN NO_PROGRESS ELSE s4
    IN  s5

DrvInit ==
    /\ epochs \in 1..MaxEpochs
    /\ train_seconds \in 1..MaxBudget
    /\ window \in 1..MaxWindow
    /\ guess \in {<<>>} \cup {<<p>> : p \in Params}
    /\ now = 0
    /\ start_time = 0
    /\ elapsed_outside_loop = 0
    /\ pc = "created"
    /\ it = 0
    /\ policy_params = 0
    /\ best_params = 0
    /\ best_loss = PInf
    /\ last_iter_improve = 0
    /\ memory = <<>>
    /\ total = Fin(0)
    /\ status = NORMAL
    /\ rec = NoRecord
    /\ nrec = 0
    /\ nupd = 0
    /\ returned = <<>>

\* lines 1408-1496: the code run by the first next() up to the loop
Start ==
    /\ pc = "created"
    /\ \E p0 \in Params :
          policy_params' = IF guess = <<>> THEN p0 ELSE guess[1]
    /\ start_time' = now
    /\ \E dt \in TickValues : now' = now + dt
    /\ elapsed_outside_loop' = 0
    /\ best_params' = policy_params'
    /\ best_loss' = PInf
    /\ last_iter_improve' = 0
    /\ memory' = <<>>
    /\ total' = Fin(0)
    /\ status' = NORMAL
    /\ it' = 0
    /\ pc' = "loop"
    /\ UNCHANGED <<epochs, train_seconds, window, guess, rec, nrec,
                   nupd, returned>>

\* lines 1498-1581: one iteration of the loop, up to and including the yield
Iterate ==
    /\ pc = "loop"
    /\ \E newp \in Params, conv \in BOOLEAN, grad_zero \in BOOLEAN,
          train_loss \in TrainLossValues, raw_test_loss \in TestLossValues,
          dt \in TickValues :
        LET rm == RollingMeanUpdate(memory, total, window, raw_test_loss)
            test_loss == rm.value
            better == ImprovesBest(test_loss, best_loss)
            elapsed == (now + dt) - start_time - elapsed_outside_loop
            st == IterationStatus(conv, elapsed, train_loss, grad_zero,
                                  it, epochs, train_seconds)
        IN  /\ policy_params' = newp
            /\ nupd' = nupd + 1
            /\ memory' = rm.memory
            /\ total' = rm.total
            /\ best_params' = IF better THEN newp ELSE best_params
            /\ best_loss' = IF better THEN test_loss ELSE best_loss
            /\ last_iter_improve' = IF better THEN it ELSE last_iter_improve
            /\ now' = now + dt
            /\ status' = st
            /\ rec' = [status |-> st,
                       iteration |-> it,
                       train_return |-> FNeg(train_loss),
                       test_return |-> FNeg(test_loss),
                       best_return |-> FNeg(best_loss'),
                       params |-> newp,
                       best_params |-> best_params',
                       last_iteration_improved |-> last_iter_improve',
                       elapsed_time |-> elapsed,
                       converged |-> conv,
                       grad_zero |-> grad_zero]
            /\ nrec' = nrec + 1
    /\ pc' = "yielded"
    /\ UNCHANGED <<epochs, train_seconds, window, guess, start_time,
                   elapsed_outside_loop, it, returned>>

Resume_updating_ahead ==
    /\ pc = "yielded"
    /\ \E dt \in TickValues :
        /\ now' = now + dt
        /\ elapsed_outside_loop' = elapsed_outside_loop + dt
    /\ IF is_failure(status)
       THEN pc' = "done" /\ it' = it /\ nupd' = nupd
       ELSE IF it + 1 < epochs
            THEN pc' = "loop" /\ it' = it + 1 /\ nupd' = nupd + 1
            ELSE pc' = "done" /\ it' = it /\ nupd' = nupd
    /\ UNCHANGED <<epochs, train_seconds, window, guess, start_time,
                   policy_params, best_params, best_loss, last_iter_improve,
                   memory, total, status, rec, nrec, returned>>

\* lines 1582-1586 and the loop header: the generator is resumed
Resume ==
    /\ pc = "yielded"
    /\ \E dt \in TickValues :
        /\ now' = now + dt
        /\ elapsed_outside_loop' = elapsed_outside_loop + dt
    /\ IF is_failure(status)
       THEN pc' = "done" /\ it' = it
       ELSE IF it + 1 < epochs
            THEN pc' = "loop" /\ it' = it + 1
            ELSE pc' = "done" /\ it' = it
    /\ UNCHANGED <<epochs, train_seconds, window, guess, start_time,
                   policy_params, best_params, best_loss, last_iter_improve,
                   memory, total, status, rec, nrec, nupd, returned>>

\* lines 1369-1374: optimize returns best_params of the last record
Return ==
    /\ pc = "done"
    /\ returned' = <<rec.best_params>>
    /\ pc' = "returned"
    /\ UNCHANGED <<epochs, train_seconds, window, guess, now, start_time,
                   elapsed_outside_loop, it, policy_params, best_params,
                   best_loss, last_iter_improve, memory, total, status, rec,
                   nrec, nupd>>

(***************************************************************************)
(* JaxStraightLinePlan.compile: the projections, at one time step          *)
(* (jax.vmap applies them to every time step independently).               *)
(* Every boolean action entry has its own no-op value.  Parameters and     *)
(* action values are fixed-point numbers: One stands for 1.0.  GridStep is *)
(* a multiple of every product of max_constraint_iter + 1 entry counts, so *)
(* that every division by a number of entries in the iterative projection  *)
(* is exact.                                                               *)
(***************************************************************************)
NumBool == 3
MaxRaw == 2
max_constraint_iter == 2

RECURSIVE Pow(_, _)
Pow(b, e) == IF e = 0 THEN 1 ELSE b * Pow(b, e - 1)

RECURSIVE Factorial(_)
Factorial(n) == IF n = 0 THEN 1 ELSE n * Factorial(n - 1)

GridStep == Pow(Factorial(NumBool), max_constraint_iter + 1)
One == 2 * MaxRaw * GridStep
Half == MaxRaw * GridStep

Max2(a, b) == IF a >= b THEN a ELSE b
Min2(a, b) == IF a <= b THEN a ELSE b
clip(x, lo, hi) == Min2(Max2(x, lo), hi)

RECURSIVE SeqSum(_)
SeqSum(q) == IF q = <<>> THEN 0 ELSE Head(q) + SeqSum(Tail(q))

\* jnp.sort(scores)[::-1]
RECURSIVE SortDescending(_)
SortDescending(q) ==
    IF q = <<>> THEN <<>>
    ELSE LET m == CHOOSE i \in 1..Len(q) : \A j \in 1..Len(q) : q[i] >= q[j]
             rest == [j \in 1..(Len(q) - 1) |-> IF j < m THEN q[j] ELSE q[j + 1]]
         IN  <<q[m]>> \o SortDescending(rest)

\* lines 434-435
bool_threshold == IF wrap_sigmoid THEN 0 ELSE Half

\* lines 470-471 (min_action_prob is one grid step)
min_action == GridStep
max_action == One - min_action

\* lines 437-442, for wrap_sigmoid = False
_jax_bool_param_to_action(param) == param

\* lines 444-449; with wrap_sigmoid the conversion is (-1/w) log(1/a - 1),
\* an odd function around a = 1/2 that the box projection evaluates at
\* min_action and max_action only
_jax_bool_action_to_param(action) ==
    IF wrap_sigmoid
    THEN (IF action = min_action THEN -((MaxRaw - 1) * GridStep)
          ELSE IF action = max_action THEN (MaxRaw - 1) * GridStep
          ELSE 0)
    ELSE action

\* lines 473-477
_jax_project_bool_to_box(param) ==
    LET lower == _jax_bool_action_to_param(min_action)
        upper == _jax_bool_action_to_param(max_action)
    IN  clip(param, lower, upper)

\* lines 481-492, boolean entries
_jax_wrapped_slp_project_to_box(ps) ==
    [i \in DOMAIN ps |-> _jax_project_bool_to_box(ps[i])]

\* lines 527-537: the thresholded boolean action of entry i
_jax_wrapped_slp_predict_test(ps, i) == ps[i] > bool_threshold

\* number of entries whose test-time action differs from their no-op value
ActiveCount(ps) ==
    Cardinality({i \in DOMAIN ps : _jax_wrapped_slp_predict_test(ps, i) # noop[i]})

\* lines 572-597
_jax_wrapped_sorting_project(ps) ==
    LET scores == [i \in DOMAIN ps |->
                      IF noop[i]
                      THEN (IF wrap_sigmoid THEN -ps[i] ELSE One - ps[i])
                      ELSE ps[i]]
        descending == SortDescending(scores)
        kplus1st_greatest == descending[allowed_actions + 1]
        surplus == Max2(kplus1st_greatest - bool_threshold, 0)
    IN  [i \in DOMAIN ps |->
            _jax_project_bool_to_box(
                ps[i] + (IF noop[i] THEN surplus ELSE -surplus))]

\* lines 613-626
_jax_wrapped_sogbofa_surplus_ignoring_noop(ps) ==
    LET action == [i \in DOMAIN ps |-> _jax_bool_param_to_action(ps[i])]
        sum_action == SeqSum(action)
        count == Cardinality({i \in DOMAIN ps : action[i] > 0})
        surplus == Max2(sum_action - allowed_actions * One, 0)
    IN  surplus \div Max2(count, 1)

_jax_wrapped_sogbofa_surplus(ps) ==
    LET action == [i \in DOMAIN ps |-> _jax_bool_param_to_action(ps[i])]
        sum_action == SeqSum([i \in DOMAIN ps |->
                         IF noop[i] THEN One - action[i] ELSE action[i]])
        count == Cardinality({i \in DOMAIN ps :
                         IF noop[i] THEN action[i] < One ELSE action[i] > 0})
        surplus == Max2(sum_action - allowed_actions * One, 0)
    IN  surplus \div Max2(count, 1)

\* lines 638-652
_jax_wrapped_sogbofa_subtract_surplus(ps, surplus) ==
    [i \in DOMAIN ps |->
        LET action == _jax_bool_param_to_action(ps[i])
            new_action == clip(action + (IF noop[i] THEN surplus ELSE -surplus),
                               min_action, max_action)
        IN  _jax_bool_action_to_param(new_action)]

\* lines 631-633 and 657-661: jax.lax.while_loop
RECURSIVE while_loop(_, _, _)
while_loop(i, ps, surplus) ==
    IF i < max_constraint_iter /\ surplus > 0
    THEN LET new_params == _jax_wrapped_sogbofa_subtract_surplus(ps, surplus)
         IN  while_loop(i + 1, new_params,
                        _jax_wrapped_sogbofa_surplus(new_params))
    ELSE [it |-> i, params |-> ps, surplus |-> surplus]

\* lines 655-663
_jax_wrapped_sogbofa_project_always_converged(ps) ==
    LET out == while_loop(0, ps, _jax_wrapped_sogbofa_surplus(ps))
    IN  [params |-> out.params, converged |-> TRUE, it |-> out.it]

_jax_wrapped_sogbofa_project_stale_flag(ps) ==
    LET out == while_loop(0, ps, _jax_wrapped_sogbofa_surplus(ps))
    IN  [params |-> out.params,
         converged |-> ~(_jax_wrapped_sogbofa_surplus(ps) > 0),
         it |-> out.it]

_jax_wrapped_sogbofa_project(ps) ==
    LET out == while_loop(0, ps, _jax_wrapped_sogbofa_surplus(ps))
    IN  [params |-> out.params, converged |-> ~(out.surplus > 0),
         it |-> out.it]

RawParams(ws) ==
    {(IF ws THEN 0 ELSE Half) + k * GridStep : k \in (-MaxRaw)..MaxRaw}

ProjInit ==
    /\ ppc = "input"
    /\ wrap_sigmoid \in BOOLEAN
    /\ allowed_actions \in 1..(NumBool - 1)
    /\ noop \in [1..NumBool -> BOOLEAN]
    /\ params \in [1..NumBool -> RawParams(wrap_sigmoid)]
    /\ in_params = params
    /\ converged = TRUE
    /\ proj_iters = 0

\* lines 600-605: plan.projection with use_new_projection = True
\* (applied to the initial parameters, then to its own output)
SortingProjection ==
    /\ ppc \in {"input", "sorted"}
    /\ in_params' = params
    /\ params' = _jax_wrapped_sorting_project(
                     _jax_wrapped_slp_project_to_box(params))
    /\ converged' = TRUE
    /\ ppc' = IF ppc = "input" THEN "sorted" ELSE "sorted_again"
    /\ UNCHANGED <<wrap_sigmoid, allowed_actions, noop, proj_iters>>

\* lines 666-671: plan.projection with use_new_projection = False
\* (applied to the initial parameters, then to its own output)
SogbofaProjection ==
    /\ ppc \in {"input", "sogbofa"}
    /\ ~wrap_sigmoid
    /\ in_params' = params
    /\ LET out == _jax_wrapped_sogbofa_project(
                      _jax_wrapped_slp_project_to_box(params))
       IN  /\ params' = out.params
           /\ converged' = out.converged
           /\ proj_iters' = out.it
    /\ ppc' = IF ppc = "input" THEN "sogbofa" ELSE "sogbofa_again"
    /\ UNCHANGED <<wrap_sigmoid, allowed_actions, noop>>

(***************************************************************************)
(* RollingMean on its own: one object, fed a sequence of values            *)
(***************************************************************************)
VARIABLES
    window_size,            \* RollingMean._window_size
    _memory,                \* RollingMean._memory
    _total,                 \* RollingMean._total
    fed,                    \* the values passed to update so far
    mean_value              \* <<>>, or <<value returned by the last update>>

rm_vars == <<window_size, _memory, _total, fed, mean_value>>

MaxFed == 3

\* the values fed to update: the driver feeds it the test loss of every
\* iteration, which can be non-finite
FedValues == {Fin(1), Fin(2), PInf, NaN}

RollingMeanInit ==
    /\ window_size \in 1..MaxWindow
    /\ _memory = <<>>
    /\ _total = Fin(0)
    /\ fed = <<>>
    /\ mean_value = <<>>

update ==
    /\ Len(fed) < MaxFed
    /\ \E x \in FedValues :
         LET r == RollingMeanUpdate(_memory, _total, window_size, x)
         IN  /\ _memory' = r.memory
             /\ _total' = r.total
             /\ mean_value' = <<r.value>>
             /\ fed' = Append(fed, x)
    /\ UNCHANGED window_size

RollingMeanIdle ==
    /\ window_size = 1
    /\ _memory = <<>>
    /\ _total = Fin(0)
    /\ fed = <<>>
    /\ mean_value = <<>>

(***************************************************************************)
(* guess_next_epoch of the two policy representations                      *)
(***************************************************************************)
VARIABLES
    gne_plan,               \* "slp" (JaxStraightLinePlan) or "drp"
    gne_params,             \* the parameters passed: tensor name -> table
    gne_result              \* <<>>, or <<value returned by guess_next_epoch>>

gne_vars == <<gne_plan, gne_params, gne_result>>

MaxHorizon == 3

\* the names of the parameter tensors and the values of their entries
TensorNames == {"a", "b"}
EntryValues == {0, 1, 2}

_guess_next_epoch_wrap_around(param) ==
    SubSeq(param, 2, Len(param)) \o SubSeq(param, 1, 1)

\* jnp.append(param[1:, ...], param[-1:, ...], axis=0)
_guess_next_epoch(param) ==
    SubSeq(param, 2, Len(param)) \o SubSeq(param, Len(param), Len(param))

\* jax.tree_map(next_fn, params)
guess_next_epoch(ps) == [v \in DOMAIN ps |-> _guess_next_epoch(ps[v])]

drp_guess_next_epoch(ps) == ps

GuessInit ==
    /\ gne_plan \in {"slp", "drp"}
    /\ \E H \in 1..MaxHorizon :
         gne_params \in [TensorNames -> [1..H -> EntryValues]]
    /\ gne_result = <<>>

SlpGuessNextEpoch ==
    /\ gne_plan = "slp"
    /\ gne_result = <<>>
    /\ gne_result' = <<guess_next_epoch(gne_params)>>
    /\ UNCHANGED <<gne_plan, gne_params>>

DrpGuessNextEpoch ==
    /\ gne_plan = "drp"
    /\ gne_result = <<>>
    /\ gne_result' = <<drp_guess_next_epoch(gne_params)>>
    /\ UNCHANGED <<gne_plan, gne_params>>

GuessIdle ==
    /\ gne_plan = "idle"
    /\ gne_params = <<>>
    /\ gne_result = <<>>

(***************************************************************************)
(* PRNG keys: a key is the path of splits that produced it                 *)
(***************************************************************************)
PRNGKey == <<>>

\* random.split(key, num): num new keys, all different and different from
\* key; the j-th key of a split in num is not assumed to be the j-th key of
\* a split of the same key in another number
split(key, num) == [j \in 1..num |-> Append(key, <<num, j - 1>>)]

(***************************************************************************)
(* JaxOfflineController. The states passed to sample_action are states     *)
(* get_action accepts; the rejection of a state is in SpecGetAction.       *)
(***************************************************************************)
VARIABLES
    off_pc,                 \* "new" before __init__, "ready" after it
    train_on_reset,         \* argument train_on_reset
    off_supplied,           \* argument params: <<>> (None) or <<parameters>>
    params_given,           \* self.params_given
    off_params,             \* self.params: <<>> (None) or <<parameters>>
    off_step,               \* self.step
    off_key,                \* self.key
    off_calls,              \* the calls made so far: "reset" / "sample_action"
    off_optimized,          \* the values returned by planner.optimize so far
    off_queries             \* the arguments of the get_action calls so far

off_vars == <<off_pc, train_on_reset, off_supplied, params_given, off_params,
              off_step, off_key, off_calls, off_optimized, off_queries>>

MaxCalls == 4

\* if not self.train_on_reset and not self.params_given
TrainAtInit(tor, given) == ~tor /\ ~given

TrainOnReset_when_not_given(tor, given) == ~given

TrainOnReset_ignoring_given(tor, given) == tor

\* if self.train_on_reset and not self.params_given
TrainOnReset(tor, given) == tor /\ ~given

step_stays(s) == s

\* self.step += 1
step_increment(s) == s + 1

OfflineInit ==
    /\ off_pc = "new"
    /\ train_on_reset \in BOOLEAN
    /\ off_supplied \in {<<>>} \cup {<<p>> : p \in Params}
    /\ params_given = FALSE
    /\ off_params = <<>>
    /\ off_step = 0
    /\ off_key = PRNGKey
    /\ off_calls = <<>>
    /\ off_optimized = <<>>
    /\ off_queries = <<>>

JaxOfflineController_init ==
    /\ off_pc = "new"
    /\ off_pc' = "ready"
    /\ params_given' = (off_supplied # <<>>)
    /\ off_step' = 0
    /\ IF TrainAtInit(train_on_reset, off_supplied # <<>>)
       THEN \E p \in Params :
              /\ off_optimized' = Append(off_optimized, p)
              /\ off_params' = <<p>>
       ELSE /\ off_params' = off_supplied
            /\ UNCHANGED off_optimized
    /\ UNCHANGED <<train_on_reset, off_supplied, off_key, off_calls,
                   off_queries>>

JaxOfflineController_sample_action ==
    /\ off_pc = "ready"
    /\ Len(off_calls) < MaxCalls
    /\ off_calls' = Append(off_calls, "sample_action")
    /\ off_key' = split(off_key, 2)[1]
    /\ off_queries' = Append(off_queries,
                             [key |-> split(off_key, 2)[2],
                              params |-> off_params,
                              step |-> off_step,
                              optimized |-> Len(off_optimized)])
    /\ off_step' = step_increment(off_step)
    /\ UNCHANGED <<off_pc, train_on_reset, off_supplied, params_given,
                   off_params, off_optimized>>

JaxOfflineController_reset ==
    /\ off_pc = "ready"
    /\ Len(off_calls) < MaxCalls
    /\ off_calls' = Append(off_calls, "reset")
    /\ off_step' = 0
    /\ IF TrainOnReset(train_on_reset, params_given)
       THEN \E p \in Params :
              /\ off_optimized' = Append(off_optimized, p)
              /\ off_params' = <<p>>
       ELSE UNCHANGED <<off_optimized, off_params>>
    /\ UNCHANGED <<off_pc, train_on_reset, off_supplied, params_given,
                   off_key, off_queries>>

OfflineIdle ==
    /\ off_pc = "idle"
    /\ train_on_reset = FALSE
    /\ off_supplied = <<>>
    /\ params_given = FALSE
    /\ off_params = <<>>
    /\ off_step = 0
    /\ off_key = PRNGKey
    /\ off_calls = <<>>
    /\ off_optimized = <<>>
    /\ off_queries = <<>>

(***************************************************************************)
(* JaxOnlineController. The states passed to sample_action are states      *)
(* optimize and get_action accept.                                         *)
(***************************************************************************)
VARIABLES
    on_pc,                  \* "new" before __init__, "ready" after it
    on_plan,                \* planner.plan: "slp" or "drp"
    warm_start,             \* argument warm_start
    on_guess,               \* self.guess: <<>> (None) or <<parameters>>
    on_key,                 \* self.key
    on_calls,               \* the calls made so far, with their argument
    on_optimized,           \* the planner.optimize calls: arguments, result
    on_queries              \* the arguments of the get_action calls so far

on_vars == <<on_pc, on_plan, warm_start, on_guess, on_key, on_calls,
             on_optimized, on_queries>>

\* the states the environment hands to sample_action
States == {"s0", "s1"}

\* the parameters planner.optimize can return: every tensor holds one of two
\* tables over two steps
OnlineParams ==
    {[v \in TensorNames |-> tab] : tab \in {<<0, 1>>, <<1, 0>>}}

\* planner.plan.guess_next_epoch
plan_guess_next_epoch(plan, ps) ==
    IF plan = "slp" THEN guess_next_epoch(ps) ELSE drp_guess_next_epoch(ps)

query_step_advancing == Len(on_queries)

\* the step index sample_action passes to get_action
query_step == 0

OnlineInit ==
    /\ on_pc = "new"
    /\ on_plan \in {"slp", "drp"}
    /\ warm_start \in BOOLEAN
    /\ on_guess = <<>>
    /\ on_key = PRNGKey
    /\ on_calls = <<>>
    /\ on_optimized = <<>>
    /\ on_queries = <<>>

JaxOnlineController_init ==
    /\ on_pc = "new"
    /\ on_pc' = "ready"
    /\ on_guess' = <<>>
    /\ UNCHANGED <<on_plan, warm_start, on_key, on_calls, on_optimized,
                   on_queries>>

JaxOnlineController_sample_action ==
    /\ on_pc = "ready"
    /\ Len(on_calls) < MaxCalls
    /\ \E state \in States, ps \in OnlineParams :
         /\ on_calls' = Append(on_calls,
                               [op |-> "sample_action", state |-> state])
         /\ on_optimized' = Append(on_optimized,
                                   [key |-> on_key, guess |-> on_guess,
                                    subs |-> state, result |-> ps,
                                    call |-> Len(on_calls) + 1])
         /\ on_key' = split(on_key, 2)[1]
         /\ on_queries' = Append(on_queries,
                                 [key |-> split(on_key, 2)[2],
                                  params |-> ps, step |-> query_step,
                                  state |-> state,
                                  call |-> Len(on_calls) + 1])
         /\ on_guess' = IF warm_start
                        THEN <<plan_guess_next_epoch(on_plan, ps)>>
                        ELSE on_guess
    /\ UNCHANGED <<on_pc, on_plan, warm_start>>

JaxOnlineController_reset_keeping_guess ==
    /\ on_pc = "ready"
    /\ Len(on_calls) < MaxCalls
    /\ on_calls' = Append(on_calls, [op |-> "reset", state |-> "none"])
    /\ UNCHANGED <<on_pc, on_plan, warm_start, on_key, on_optimized,
                   on_queries, on_guess>>

JaxOnlineController_reset ==
    /\ on_pc = "ready"
    /\ Len(on_calls) < MaxCalls
    /\ on_calls' = Append(on_calls, [op |-> "reset", state |-> "none"])
    /\ on_guess' = <<>>
    /\ UNCHANGED <<on_pc, on_plan, warm_start, on_key, on_optimized,
                   on_queries>>

OnlineIdle ==
    /\ on_pc = "idle"
    /\ on_plan = "idle"
    /\ warm_start = FALSE
    /\ on_guess = <<>>
    /\ on_key = PRNGKey
    /\ on_calls = <<>>
    /\ on_optimized = <<>>
    /\ on_queries = <<>>

(***************************************************************************)
(* JaxBackpropPlanner.get_action: the check of the subs dictionary         *)
(***************************************************************************)
VARIABLES
    ga_pc,                  \* "call", then "returned" or "raised"
    ga_step,                \* argument step
    ga_subs,                \* argument subs (the caller's dictionary)
    ga_in,                  \* subs as it was when get_action was called
    ga_query                \* <<>>, or <<arguments of self.test_policy>>

ga_vars == <<ga_pc, ga_step, ga_subs, ga_in, ga_query>>

MaxSubs == 2

StepValues == {0, 1}

\* an item of subs: whether the key contains RDDLPlanningModel.FLUENT_SEP or
\* OBJECT_SEP, the dtype of the value, whether the key is an observ-fluent
\* (the names of the model's fluents contain no separator)
SubsItems ==
    {e \in [fluent_sep : BOOLEAN, object_sep : BOOLEAN,
            dtype : {"number", "bool", "other"}, observ : BOOLEAN,
            init_value : {FALSE}] :
        e.observ => (~e.fluent_sep /\ ~e.object_sep)}

\* self.test_compiled.init_values[var]
init_values(e) == [e EXCEPT !.dtype = "number", !.init_value = TRUE]

is_grounded(e) == e.fluent_sep \/ e.object_sep

is_numeric(e) == e.dtype = "number" \/ e.dtype = "bool"

missing_observation_at_any_step(step, e) == e.observ

\* if step == 0 and var in self.rddl.observ_fluents
missing_observation(step, e) == step = 0 /\ e.observ

\* for (var, values) in subs.items(): from item i on
RECURSIVE check_subs(_, _, _)
check_subs(subs, step, i) ==
    IF i > Len(subs) THEN [raised |-> FALSE, subs |-> subs]
    ELSE IF is_grounded(subs[i]) THEN [raised |-> TRUE, subs |-> subs]
    ELSE IF ~is_numeric(subs[i])
         THEN IF missing_observation(step, subs[i])
              THEN check_subs([subs EXCEPT ![i] = init_values(subs[i])],
                              step, i + 1)
              ELSE [raised |-> TRUE, subs |-> subs]
    ELSE check_subs(subs, step, i + 1)

GetActionInit ==
    /\ ga_pc = "call"
    /\ ga_step \in StepValues
    /\ \E n \in 0..MaxSubs : ga_subs \in [1..n -> SubsItems]
    /\ ga_in = ga_subs
    /\ ga_query = <<>>

get_action ==
    /\ ga_pc = "call"
    /\ LET r == check_subs(ga_subs, ga_step, 1)
       IN  /\ ga_subs' = r.subs
           /\ ga_pc' = IF r.raised THEN "raised" ELSE "returned"
           /\ ga_query' = IF r.raised THEN <<>>
                          ELSE <<[step |-> ga_step, subs |-> r.subs]>>
    /\ UNCHANGED <<ga_step, ga_in>>

GetActionIdle ==
    /\ ga_pc = "idle"
    /\ ga_step = 0
    /\ ga_subs = <<>>
    /\ ga_in = <<>>
    /\ ga_query = <<>>

(***************************************************************************)
(* Two runs of optimize_generator with the same key and the same           *)
(* arguments, one after the other. initialize, update, train_loss and      *)
(* test_loss are jitted pure functions: what they return is chosen the     *)
(* first time they are called with given arguments and is the same at      *)
(* every later call with these arguments. The wall clock of each run is    *)
(* its own. policy_params stands for policy_params, opt_state and opt_aux. *)
(***************************************************************************)
VARIABLES
    rp_epochs,              \* argument epochs of both runs
    rp_train_seconds,       \* argument train_seconds of both runs
    rp_window,              \* argument test_rolling_window of both runs
    rp_guess,               \* argument guess of both runs
    rp_run,                 \* the run in progress: 1 or 2
    rp_pc,                  \* "created", "loop", "done" ("idle" elsewhere)
    rp_key,                 \* local key
    rp_it,                  \* local it
    rp_elapsed,             \* time spent inside the generator so far
    rp_policy_params,
    rp_best_params,
    rp_best_loss,
    rp_memory,              \* rolling_test_loss._memory
    rp_total,               \* rolling_test_loss._total
    rp_records,             \* <<records yielded by run 1, ... by run 2>>
    rp_calls                \* the results of the jitted calls made so far

rp_vars == <<rp_epochs, rp_train_seconds, rp_window, rp_guess, rp_run, rp_pc,
             rp_key, rp_it, rp_elapsed, rp_policy_params, rp_best_params,
             rp_best_loss, rp_memory, rp_total, rp_records, rp_calls>>

\* what update, train_loss and test_loss of one iteration can return
IterationOutcomes ==
    [params : Params, converged : {TRUE}, grad_zero : BOOLEAN,
     train_loss : {Fin(1)}, test_loss : {Fin(1), Fin(2)}]

\* the arguments of self.initialize that differ between calls
initialize(subkey) ==
    [fn |-> "initialize", key |-> subkey, params |-> <<>>]

iteration_with_clock(key, ps, elapsed) ==
    [fn |-> "iteration", key |-> key, params |-> <<ps, elapsed>>]

\* the arguments of self.update, self.train_loss and self.test_loss of one
\* iteration that differ between calls: the subkeys split from key, and the
\* parameters
iteration(key, ps, elapsed) ==
    [fn |-> "iteration", key |-> key, params |-> <<ps>>]

\* the results a call with arguments a can give
Results(a, all) ==
    IF a \in DOMAIN rp_calls THEN {rp_calls[a]} ELSE all

ReproInit ==
    /\ rp_epochs \in 1..MaxEpochs
    /\ rp_train_seconds \in 1..MaxBudget
    /\ rp_window \in 1..MaxWindow
    /\ rp_guess \in {<<>>} \cup {<<p>> : p \in Params}
    /\ rp_run = 1
    /\ rp_pc = "created"
    /\ rp_key = PRNGKey
    /\ rp_it = 0
    /\ rp_elapsed = 0
    /\ rp_policy_params = 0
    /\ rp_best_params = 0
    /\ rp_best_loss = PInf
    /\ rp_memory = <<>>
    /\ rp_total = Fin(0)
    /\ rp_records = <<<<>>, <<>>>>
    /\ rp_calls = <<>>

\* lines 1409-1484: up to the loop
ReproStart ==
    /\ rp_pc = "created"
    /\ IF rp_guess = <<>>
       THEN LET a == initialize(split(rp_key, 2)[2])
            IN  \E p0 \in Results(a, Params) :
                  /\ rp_key' = split(rp_key, 2)[1]
                  /\ rp_policy_params' = p0
                  /\ rp_best_params' = p0
                  /\ rp_calls' = (a :> p0) @@ rp_calls
       ELSE /\ rp_policy_params' = rp_guess[1]
            /\ rp_best_params' = rp_guess[1]
            /\ UNCHANGED <<rp_key, rp_calls>>
    /\ rp_pc' = "loop"
    /\ UNCHANGED <<rp_epochs, rp_train_seconds, rp_window, rp_guess, rp_run,
                   rp_it, rp_elapsed, rp_best_loss, rp_memory, rp_total,
                   rp_records>>

\* lines 1498-1586: one iteration, its record, and the abortion check
ReproIterate ==
    /\ rp_pc = "loop"
    /\ \E dt \in TickValues :
        LET elapsed == rp_elapsed + dt
            a == iteration(rp_key, rp_policy_params, elapsed)
        IN  \E o \in Results(a, IterationOutcomes) :
              LET rm == RollingMeanUpdate(rp_memory, rp_total, rp_window,
                                          o.test_loss)
                  better == ImprovesBest(rm.value, rp_best_loss)
                  st == IterationStatus(o.converged, elapsed, o.train_loss,
                                        o.grad_zero, rp_it, rp_epochs,
                                        rp_train_seconds)
                  r == [status |-> st, iteration |-> rp_it,
                        params |-> o.params,
                        best_params |-> IF better THEN o.params
                                        ELSE rp_best_params,
                        elapsed_time |-> elapsed]
              IN  /\ rp_calls' = (a :> o) @@ rp_calls
                  /\ rp_key' = split(rp_key, 4)[1]
                  /\ rp_policy_params' = o.params
                  /\ rp_memory' = rm.memory
                  /\ rp_total' = rm.total
                  /\ rp_best_params' = r.best_params
                  /\ rp_best_loss' = IF better THEN rm.value
                                     ELSE rp_best_loss
                  /\ rp_elapsed' = elapsed
                  /\ rp_records' = [rp_records EXCEPT
                                       ![rp_run] = Append(@, r)]
                  /\ IF is_failure(st) \/ rp_it + 1 >= rp_epochs
                     THEN rp_pc' = "done" /\ rp_it' = rp_it
                     ELSE rp_pc' = "loop" /\ rp_it' = rp_it + 1
    /\ UNCHANGED <<rp_epochs, rp_train_seconds, rp_window, rp_guess, rp_run>>

\* the second call of optimize_generator, with the arguments of the first
ReproSecondRun ==
    /\ rp_pc = "done"
    /\ rp_run = 1
    /\ rp_run' = 2
    /\ rp_pc' = "created"
    /\ rp_key' = PRNGKey
    /\ rp_it' = 0
    /\ rp_elapsed' = 0
    /\ rp_policy_params' = 0
    /\ rp_best_params' = 0
    /\ rp_best_loss' = PInf
    /\ rp_memory' = <<>>
    /\ rp_total' = Fin(0)
    /\ UNCHANGED <<rp_epochs, rp_train_seconds, rp_window, rp_guess,
                   rp_records, rp_calls>>

ReproIdle ==
    /\ rp_epochs = 1
    /\ rp_train_seconds = 1
    /\ rp_window = 1
    /\ rp_guess = <<>>
    /\ rp_run = 1
    /\ rp_pc = "idle"
    /\ rp_key = PRNGKey
    /\ rp_it = 0
    /\ rp_elapsed = 0
    /\ rp_policy_params = 0
    /\ rp_best_params = 0
    /\ rp_best_loss = PInf
    /\ rp_memory = <<>>
    /\ rp_total = Fin(0)
    /\ rp_records = <<<<>>, <<>>>>
    /\ rp_calls = <<>>

(***************************************************************************)
(* JaxLineSearchPlanner._jax_update: one call of _jax_wrapped_plan_update  *)
(***************************************************************************)
VARIABLES
    ls_pc,                  \* "called", "loop" (at the while test), "returned"
    decay,                  \* self.decay
    lrmax,                  \* self.step_max
    lrmin,                  \* self.step_min
    ls_f,                   \* f: the loss at the current parameters
    gnorm2,                 \* squared norm of the gradient
    ls_step,                \* step
    f_step,                 \* f_step
    trials,                 \* the trials evaluated so far: <<[step, f_step]>>
    best_f,
    best_step,              \* <<>> (None) or <<step>>
    ls_best_params,         \* <<>> (None) or <<number of the trial>>: the
                            \* new_params and new_state of that trial
    ls_returned             \* <<>>, or <<the tuple returned>>

ls_vars == <<ls_pc, decay, lrmax, lrmin, ls_f, gnorm2, ls_step, f_step,
             trials, best_f, best_step, ls_best_params, ls_returned>>

\* the number of times step_max can be multiplied by decay before it falls
\* below the smallest step_min of the model
MaxDecays == 2

Frac(n, d) == [k |-> "fin", n |-> n, d |-> d]

\* products and quotients of finite values (the divisor is positive)
FMul(a, b) == [k |-> "fin", n |-> a.n * b.n, d |-> a.d * b.d]
FDiv(a, b) == [k |-> "fin", n |-> a.n * b.d, d |-> a.d * b.n]

\* a > b and a >= b on floats: false as soon as one side is nan
FGreater(a, b) == FLess(b, a)
FGeq(a, b) == FLess(b, a) \/ FEq(a, b)

\* self.c
c == Frac(1, 10)

DecayValues == {Frac(1, 2)}
StepMaxValues == {Fin(1)}
\* step_min: step_max * decay^k for some k, or a value above step_max
StepMinValues == {Frac(1, Pow(2, k)) : k \in 0..MaxDecays} \cup {Fin(2)}
\* the loss at the current parameters and the losses of the trials
LossValues == {Fin(2), PInf, NaN}
Gnorm2Values == {Fin(0), Fin(4)}
TrialLossValues == {Fin(0), Fin(1), Fin(2), PInf, NaN}

\* f_step > f - c * step * gnorm2 and step * decay >= lrmin
while_test(fs, f, step) ==
    /\ FGreater(fs, FSub(f, FMul(FMul(c, step), gnorm2)))
    /\ FGeq(FMul(step, decay), lrmin)

\* if f_step < best_f
improves(fs, bf) == FLess(fs, bf)

LineSearchInit ==
    /\ ls_pc = "called"
    /\ decay \in DecayValues
    /\ lrmax \in StepMaxValues
    /\ lrmin \in StepMinValues
    /\ ls_f = Fin(0)
    /\ gnorm2 = Fin(0)
    /\ ls_step = Fin(0)
    /\ f_step = PInf
    /\ trials = <<>>
    /\ best_f = PInf
    /\ best_step = <<>>
    /\ ls_best_params = <<>>
    /\ ls_returned = <<>>

\* lines 1783-1791: _jax_wrapped_line_search_init and the initial values
line_search_init ==
    /\ ls_pc = "called"
    /\ ls_f' \in LossValues
    /\ gnorm2' \in Gnorm2Values
    /\ ls_step' = FDiv(lrmax, decay)
    /\ f_step' = PInf
    /\ trials' = <<>>
    /\ best_f' = PInf
    /\ best_step' = <<>>
    /\ ls_best_params' = <<>>
    /\ ls_pc' = "loop"
    /\ UNCHANGED <<decay, lrmax, lrmin, ls_returned>>

\* lines 1792-1800: one pass through the body of the while loop
line_search_trial ==
    /\ ls_pc = "loop"
    /\ while_test(f_step, ls_f, ls_step)
    /\ \E fs \in TrialLossValues :
         LET step == FMul(ls_step, decay)
             better == improves(fs, best_f)
         IN  /\ ls_step' = step
             /\ f_step' = fs
             /\ trials' = Append(trials, [step |-> step, f_step |-> fs])
             /\ best_f' = IF better THEN fs ELSE best_f
             /\ best_step' = IF better THEN <<step>> ELSE best_step
             /\ ls_best_params' = IF better THEN <<Len(trials) + 1>>
                                  ELSE ls_best_params
    /\ UNCHANGED <<ls_pc, decay, lrmax, lrmin, ls_f, gnorm2, ls_returned>>

\* lines 1802-1805: the loop has ended
line_search_return ==
    /\ ls_pc = "loop"
    /\ ~while_test(f_step, ls_f, ls_step)
    /\ ls_pc' = "returned"
    /\ ls_returned' = <<[params |-> ls_best_params, converged |-> TRUE,
                         opt_state |-> ls_best_params,
                         learning_rate |-> best_step,
                         line_search_iters |-> Len(trials)]>>
    /\ UNCHANGED <<decay, lrmax, lrmin, ls_f, gnorm2, ls_step, f_step,
                   trials, best_f, best_step, ls_best_params>>

LineSearchIdle ==
    /\ ls_pc = "idle"
    /\ decay = Fin(1)
    /\ lrmax = Fin(1)
    /\ lrmin = Fin(1)
    /\ ls_f = Fin(0)
    /\ gnorm2 = Fin(0)
    /\ ls_step = Fin(0)
    /\ f_step = PInf
    /\ trials = <<>>
    /\ best_f = PInf
    /\ best_step = <<>>
    /\ ls_best_params = <<>>
    /\ ls_returned = <<>>

(***************************************************************************)
(* JaxStraightLinePlan: the initializer and the projections applied to a   *)
(* plan that holds boolean entries (params, one time step) and one         *)
(* non-boolean entry                                                       *)
(***************************************************************************)
VARIABLES
    box_pc,                 \* "created", then "init", "box", "sorting" or
                            \* "sogbofa": the function that has been applied
    wrap_non_bool,
    nb_param,               \* the parameter of the non-boolean action
    nb_in                   \* the value handed to the function

box_vars == <<box_pc, wrap_non_bool, nb_param, nb_in>>

\* bounds[var] of the non-boolean action
NbLower == 0
NbUpper == 2
NbValues == (NbLower - 1)..(NbUpper + 1)

\* number of boolean action entries of this plan
BoxBool == NumBool - 1

BoxRawParams == [1..BoxBool -> RawParams(wrap_sigmoid)]

\* lines 488-491: the non-boolean branch of the box projection
_jax_project_non_bool_to_box_unclipped(param) == param

_jax_project_non_bool_to_box(param) ==
    IF wrap_non_bool THEN param ELSE clip(param, NbLower, NbUpper)

BoxInit ==
    /\ box_pc = "created"
    /\ wrap_non_bool \in BOOLEAN
    /\ nb_param = NbLower
    /\ nb_in = NbLower
    /\ ppc = "idle"
    /\ wrap_sigmoid \in BOOLEAN
    /\ allowed_actions \in 1..(BoxBool - 1)
    /\ noop \in [1..BoxBool -> BOOLEAN]
    /\ params = [i \in 1..BoxBool |-> bool_threshold]
    /\ in_params = params
    /\ converged = TRUE
    /\ proj_iters = 0

\* lines 687-700: the initializer draws every entry (boolean entries are
\* shifted by bool_threshold) and projects to the box
_jax_wrapped_slp_init ==
    /\ box_pc = "created"
    /\ \E ps \in BoxRawParams, nb \in NbValues :
         /\ in_params' = ps
         /\ nb_in' = nb
         /\ params' = _jax_wrapped_slp_project_to_box(ps)
         /\ nb_param' = _jax_project_non_bool_to_box(nb)
    /\ box_pc' = "init"
    /\ UNCHANGED <<wrap_non_bool, ppc, wrap_sigmoid, allowed_actions, noop,
                   converged, proj_iters>>

\* lines 481-492 and 676: plan.projection is the box projection
BoxProjection ==
    /\ box_pc = "created"
    /\ \E ps \in BoxRawParams, nb \in NbValues :
         /\ in_params' = ps
         /\ nb_in' = nb
         /\ params' = _jax_wrapped_slp_project_to_box(ps)
         /\ nb_param' = _jax_project_non_bool_to_box(nb)
    /\ converged' = TRUE
    /\ box_pc' = "box"
    /\ UNCHANGED <<wrap_non_bool, ppc, wrap_sigmoid, allowed_actions, noop,
                   proj_iters>>

\* lines 572-605: the sort-based projection leaves non-boolean entries as
\* the box projection returned them
BoxSortingProjection ==
    /\ box_pc = "created"
    /\ \E ps \in BoxRawParams, nb \in NbValues :
         /\ in_params' = ps
         /\ nb_in' = nb
         /\ params' = _jax_wrapped_sorting_project(
                          _jax_wrapped_slp_project_to_box(ps))
         /\ nb_param' = _jax_project_non_bool_to_box(nb)
    /\ converged' = TRUE
    /\ box_pc' = "sorting"
    /\ UNCHANGED <<wrap_non_bool, ppc, wrap_sigmoid, allowed_actions, noop,
                   proj_iters>>

\* lines 638-671: the iterative projection leaves non-boolean entries as
\* the box projection returned them
BoxSogbofaProjection ==
    /\ box_pc = "created"
    /\ ~wrap_sigmoid
    /\ \E ps \in BoxRawParams, nb \in NbValues :
         LET out == _jax_wrapped_sogbofa_project(
                        _jax_wrapped_slp_project_to_box(ps))
         IN  /\ in_params' = ps
             /\ nb_in' = nb
             /\ params' = out.params
             /\ converged' = out.converged
             /\ proj_iters' = out.it
             /\ nb_param' = _jax_project_non_bool_to_box(nb)
    /\ box_pc' = "sogbofa"
    /\ UNCHANGED <<wrap_non_bool, ppc, wrap_sigmoid, allowed_actions, noop>>

BoxIdle ==
    /\ box_pc = "idle"
    /\ wrap_non_bool = FALSE
    /\ nb_param = NbLower
    /\ nb_in = NbLower

(***************************************************************************)
(* The status of the records, by planner class and projection of the plan  *)
(***************************************************************************)
VARIABLES
    st_pc,                  \* "loop", or "stopped" after a failure status
    planner,                \* "JaxBackpropPlanner" (fixed step) or
                            \* "JaxLineSearchPlanner"
    projection,             \* plan.projection: "box", "softmax", "sorting",
                            \* "sogbofa" (straight-line plan) or "drp"
    st_epochs,
    st_it,
    st_rec                  \* the record most recently yielded, with the
                            \* flag returned by self.update

st_vars == <<st_pc, planner, projection, st_epochs, st_it, st_rec>>

Planners == {"JaxBackpropPlanner", "JaxLineSearchPlanner"}
Projections == {"box", "softmax", "sorting", "sogbofa", "drp"}

\* the values of the flag a projection can return: True is the literal
\* returned by every projection except the iterative one (492, 563, 595,
\* 923), which returns not (surplus > 0) for every time step (662)
projection_converged(p) == IF p = "sogbofa" THEN BOOLEAN ELSE {TRUE}

\* the second value returned by self.update: the flag of the projection
\* (1309-1312), or True in the line-search planner (1775, 1805)
update_converged_from_projection(pl, p) == projection_converged(p)

update_converged(pl, p) ==
    IF pl = "JaxLineSearchPlanner" THEN {TRUE} ELSE projection_converged(p)

StatusInit ==
    /\ st_pc = "loop"
    /\ planner \in Planners
    /\ projection \in Projections
    /\ st_epochs \in 1..MaxEpochs
    /\ st_it = 0
    /\ st_rec = NoRecord

\* lines 1498-1586: one iteration of the loop of optimize_generator
StatusIterate ==
    /\ st_pc = "loop"
    /\ st_it < st_epochs
    /\ \E conv \in update_converged(planner, projection),
          elapsed \in 0..MaxBudget, train_loss \in TrainLossValues,
          grad_zero \in BOOLEAN :
         LET s == IterationStatus(conv, elapsed, train_loss, grad_zero,
                                  st_it, st_epochs, MaxBudget)
         IN  /\ st_rec' = [status |-> s, iteration |-> st_it,
                             converged |-> conv, elapsed_time |-> elapsed]
             /\ st_pc' = IF is_failure(s) THEN "stopped" ELSE "loop"
    /\ st_it' = st_it + 1
    /\ UNCHANGED <<planner, projection, st_epochs>>

StatusIdle ==
    /\ st_pc = "idle"
    /\ planner = "JaxBackpropPlanner"
    /\ projection = "box"
    /\ st_epochs = 1
    /\ st_it = 0
    /\ st_rec = NoRecord

(***************************************************************************)
(* The random subkeys one call of planner.optimize consumes                *)
(***************************************************************************)
\* lines 1469-1477: the key the loop starts with; without a guess the key is
\* split once and the subkey goes to self.initialize
optimize_loop_key(key, g) ==
    IF g = <<>> THEN split(key, 2)[1] ELSE key

\* line 1502: every iteration splits the key in four, keeps the first key
\* and passes the three subkeys to update, train_loss and test_loss; the
\* subkeys of the first n iterations
RECURSIVE iteration_subkeys(_, _)
iteration_subkeys(key, n) ==
    IF n = 0 THEN {}
    ELSE {split(key, 4)[2], split(key, 4)[3], split(key, 4)[4]}
             \cup iteration_subkeys(split(key, 4)[1], n - 1)

(***************************************************************************)
(* JaxPlannerDashboard: register_experiment in the training thread, one    *)
(* dictionary assignment at a time, and the callbacks of the dash thread   *)
(***************************************************************************)
VARIABLES
    reg_pc,                 \* 0: not in register_experiment; j: the j-th
                            \* assignment of RegisterOrder is the next one
    experiment_id,          \* the id being registered
    reg_result,             \* "none", "returned" or "ValueError"
    tables,                 \* for every dictionary but checked: the ids
                            \* that have an entry
    checked,                \* self.checked
    cb_last                 \* the callback that ran last, and how it ended

db_vars == <<reg_pc, experiment_id, reg_result, tables, checked, cb_last>>

MaxExperiments == 2

\* lines 586-604: the dictionaries in the order register_experiment assigns
\* their entries
RegisterOrder ==
    <<"timestamps", "duration", "seeds", "status", "progress", "rddl",
      "planner_info", "checked", "xticks", "train_return", "test_return",
      "return_dist_ticks", "return_dist", "action_output", "policy_params",
      "policy_params_ticks">>

Tables == {RegisterOrder[j] : j \in DOMAIN RegisterOrder} \ {"checked"}

\* the dictionaries a callback reads for a row of self.checked, and whether
\* it reads them for every row or for the checked rows only
Callbacks ==
    {[name |-> "update_experiment_table", every_row |-> TRUE,
      reads |-> {"progress", "seeds", "timestamps", "duration", "status"}],
     [name |-> "update_test_return_graph", every_row |-> FALSE,
      reads |-> {"xticks", "test_return"}],
     [name |-> "update_train_return_graph", every_row |-> FALSE,
      reads |-> {"xticks", "train_return"}],
     [name |-> "update_dist_return_graph", every_row |-> FALSE,
      reads |-> {"return_dist", "return_dist_ticks"}],
     [name |-> "update_action_heatmap", every_row |-> FALSE,
      reads |-> {"action_output"}],
     [name |-> "update_policy_params", every_row |-> TRUE,
      reads |-> {"policy_params", "policy_params_ticks"}],
     [name |-> "update_planner_info", every_row |-> FALSE,
      reads |-> {"planner_info"}]}

\* a callback raises KeyError when a dictionary it reads has no entry
callback_result(cb) ==
    IF \E row \in DOMAIN checked :
           /\ cb.every_row \/ checked[row]
           /\ \E t \in cb.reads : row \notin tables[t]
    THEN "KeyError" ELSE "ok"

DashboardInit ==
    /\ reg_pc = 0
    /\ experiment_id = 0
    /\ reg_result = "none"
    /\ tables = [t \in Tables |-> {}]
    /\ checked = <<>>
    /\ cb_last = [name |-> "none", result |-> "ok"]

\* lines 579-584: experiment_id None (0 here) becomes len(self.xticks) + 1
register_experiment_call ==
    /\ reg_pc = 0
    /\ Cardinality(tables["xticks"]) < MaxExperiments
    /\ \E given \in 0..MaxExperiments :
         LET id == IF given = 0 THEN Cardinality(tables["xticks"]) + 1
                   ELSE given
         IN  IF id \in tables["xticks"]
             THEN /\ reg_result' = "ValueError"
                  /\ UNCHANGED <<reg_pc, experiment_id>>
             ELSE /\ reg_result' = "none"
                  /\ reg_pc' = 1
                  /\ experiment_id' = id
    /\ UNCHANGED <<tables, checked, cb_last>>

\* lines 586-605: the next assignment, and the return after the last one
register_experiment_assign ==
    /\ reg_pc \in DOMAIN RegisterOrder
    /\ IF RegisterOrder[reg_pc] = "checked"
       THEN /\ checked' = [row \in DOMAIN checked \cup {experiment_id} |->
                              IF row = experiment_id THEN FALSE
                              ELSE checked[row]]
            /\ UNCHANGED tables
       ELSE /\ tables' = [tables EXCEPT ![RegisterOrder[reg_pc]] =
                                            @ \cup {experiment_id}]
            /\ UNCHANGED checked
    /\ reg_pc' = IF reg_pc = Len(RegisterOrder) THEN 0 ELSE reg_pc + 1
    /\ reg_result' = IF reg_pc = Len(RegisterOrder) THEN "returned"
                     ELSE reg_result
    /\ UNCHANGED <<experiment_id, cb_last>>

\* lines 326-556: a callback fired by the refresh interval
refresh_callback ==
    /\ \E cb \in Callbacks :
         cb_last' = [name |-> cb.name, result |-> callback_result(cb)]
    /\ UNCHANGED <<reg_pc, experiment_id, reg_result, tables, checked>>

\* lines 344-353: the callback of the checkboxes of the experiment table
click_checkbox ==
    /\ \E row \in DOMAIN checked, chk \in BOOLEAN :
         /\ checked[row] # chk
         /\ checked' = [checked EXCEPT ![row] = chk]
    /\ UNCHANGED <<reg_pc, experiment_id, reg_result, tables, cb_last>>

DashboardIdle ==
    /\ reg_pc = 0
    /\ experiment_id = 0
    /\ reg_result = "idle"
    /\ tables = [t \in Tables |-> {}]
    /\ checked = <<>>
    /\ cb_last = [name |-> "none", result |-> "ok"]

(***************************************************************************)
(* Specifications: each one runs one part of the program, the variables of *)
(* the other parts keep their idle values                                  *)
(***************************************************************************)
ProjIdle ==
    /\ ppc = "idle"
    /\ wrap_sigmoid = FALSE
    /\ allowed_actions = 0
    /\ noop = <<>>
    /\ params = <<>>
    /\ in_params = <<>>
    /\ converged = TRUE
    /\ proj_iters = 0

DrvIdle ==
    /\ epochs = 1
    /\ train_seconds = 1
    /\ window = 1
    /\ guess = <<>>
    /\ now = 0
    /\ start_time = 0
    /\ elapsed_outside_loop = 0
    /\ pc = "idle"
    /\ it = 0
    /\ policy_params = 0
    /\ best_params = 0
    /\ best_loss = PInf
    /\ last_iter_improve = 0
    /\ memory = <<>>
    /\ total = Fin(0)
    /\ status = NORMAL
    /\ rec = NoRecord
    /\ nrec = 0
    /\ nupd = 0
    /\ returned = <<>>

vars == <<drv_vars, proj_vars, rm_vars, gne_vars, off_vars, on_vars, ga_vars, rp_vars, ls_vars, box_vars, st_vars, db_vars>>

\* the optimization driver
Init ==
    /\ DrvInit
    /\ ProjIdle
    /\ RollingMeanIdle
    /\ GuessIdle
    /\ OfflineIdle
    /\ OnlineIdle
    /\ GetActionIdle
    /\ ReproIdle
    /\ LineSearchIdle
    /\ BoxIdle
    /\ StatusIdle
    /\ DashboardIdle

Next ==
    \/ Start /\ UNCHANGED <<proj_vars, rm_vars, gne_vars, off_vars, on_vars, ga_vars, rp_vars, ls_vars, box_vars, st_vars, db_vars>>
    \/ Iterate /\ UNCHANGED <<proj_vars, rm_vars, gne_vars, off_vars, on_vars, ga_vars, rp_vars, ls_vars, box_vars, st_vars, db_vars>>
    \/ Resume /\ UNCHANGED <<proj_vars, rm_vars, gne_vars, off_vars, on_vars, ga_vars, rp_vars, ls_vars, box_vars, st_vars, db_vars>>
    \/ Return /\ UNCHANGED <<proj_vars, rm_vars, gne_vars, off_vars, on_vars, ga_vars, rp_vars, ls_vars, box_vars, st_vars, db_vars>>

Spec == Init /\ [][Next]_vars

\* the projections of the straight-line plan
InitProj ==
    /\ DrvIdle
    /\ ProjInit
    /\ RollingMeanIdle
    /\ GuessIdle
    /\ OfflineIdle
    /\ OnlineIdle
    /\ GetActionIdle
    /\ ReproIdle
    /\ LineSearchIdle
    /\ BoxIdle
    /\ StatusIdle
    /\ DashboardIdle

NextProj ==
    \/ SortingProjection /\ UNCHANGED <<drv_vars, rm_vars, gne_vars, off_vars, on_vars, ga_vars, rp_vars, ls_vars, box_vars, st_vars, db_vars>>
    \/ SogbofaProjection /\ UNCHANGED <<drv_vars, rm_vars, gne_vars, off_vars, on_vars, ga_vars, rp_vars, ls_vars, box_vars, st_vars, db_vars>>

SpecProj == InitProj /\ [][NextProj]_vars

\* RollingMean on its own
InitRollingMean ==
    /\ DrvIdle
    /\ ProjIdle
    /\ RollingMeanInit
    /\ GuessIdle
    /\ OfflineIdle
    /\ OnlineIdle
    /\ GetActionIdle
    /\ ReproIdle
    /\ LineSearchIdle
    /\ BoxIdle
    /\ StatusIdle
    /\ DashboardIdle

NextRollingMean ==
    \/ update /\ UNCHANGED <<drv_vars, proj_vars, gne_vars, off_vars, on_vars, ga_vars, rp_vars, ls_vars, box_vars, st_vars, db_vars>>

SpecRollingMean == InitRollingMean /\ [][NextRollingMean]_vars

\* guess_next_epoch on its own
InitGuess ==
    /\ DrvIdle
    /\ ProjIdle
    /\ RollingMeanIdle
    /\ GuessInit
    /\ OfflineIdle
    /\ OnlineIdle
    /\ GetActionIdle
    /\ ReproIdle
    /\ LineSearchIdle
    /\ BoxIdle
    /\ StatusIdle
    /\ DashboardIdle

NextGuess ==
    \/ SlpGuessNextEpoch /\ UNCHANGED <<drv_vars, proj_vars, rm_vars, off_vars, on_vars, ga_vars, rp_vars, ls_vars, box_vars, st_vars, db_vars>>
    \/ DrpGuessNextEpoch /\ UNCHANGED <<drv_vars, proj_vars, rm_vars, off_vars, on_vars, ga_vars, rp_vars, ls_vars, box_vars, st_vars, db_vars>>

SpecGuess == InitGuess /\ [][NextGuess]_vars

\* the offline controller
InitOffline ==
    /\ DrvIdle
    /\ ProjIdle
    /\ RollingMeanIdle
    /\ GuessIdle
    /\ OfflineInit
    /\ OnlineIdle
    /\ GetActionIdle
    /\ ReproIdle
    /\ LineSearchIdle
    /\ BoxIdle
    /\ StatusIdle
    /\ DashboardIdle

NextOffline ==
    \/ JaxOfflineController_init /\ UNCHANGED <<drv_vars, proj_vars, rm_vars, gne_vars, on_vars, ga_vars, rp_vars, ls_vars, box_vars, st_vars, db_vars>>
    \/ JaxOfflineController_sample_action /\ UNCHANGED <<drv_vars, proj_vars, rm_vars, gne_vars, on_vars, ga_vars, rp_vars, ls_vars, box_vars, st_vars, db_vars>>
    \/ JaxOfflineController_reset /\ UNCHANGED <<drv_vars, proj_vars, rm_vars, gne_vars, on_vars, ga_vars, rp_vars, ls_vars, box_vars, st_vars, db_vars>>

SpecOffline == InitOffline /\ [][NextOffline]_vars

\* the online controller
InitOnline ==
    /\ DrvIdle
    /\ ProjIdle
    /\ RollingMeanIdle
    /\ GuessIdle
    /\ OfflineIdle
    /\ OnlineInit
    /\ GetActionIdle
    /\ ReproIdle
    /\ LineSearchIdle
    /\ BoxIdle
    /\ StatusIdle
    /\ DashboardIdle

NextOnline ==
    \/ JaxOnlineController_init /\ UNCHANGED <<drv_vars, proj_vars, rm_vars, gne_vars, off_vars, ga_vars, rp_vars, ls_vars, box_vars, st_vars, db_vars>>
    \/ JaxOnlineController_sample_action /\ UNCHANGED <<drv_vars, proj_vars, rm_vars, gne_vars, off_vars, ga_vars, rp_vars, ls_vars, box_vars, st_vars, db_vars>>
    \/ JaxOnlineController_reset /\ UNCHANGED <<drv_vars, proj_vars, rm_vars, gne_vars, off_vars, ga_vars, rp_vars, ls_vars, box_vars, st_vars, db_vars>>

SpecOnline == InitOnline /\ [][NextOnline]_vars

\* get_action on its own
InitGetAction ==
    /\ DrvIdle
    /\ ProjIdle
    /\ RollingMeanIdle
    /\ GuessIdle
    /\ OfflineIdle
    /\ OnlineIdle
    /\ GetActionInit
    /\ ReproIdle
    /\ LineSearchIdle
    /\ BoxIdle
    /\ StatusIdle
    /\ DashboardIdle

NextGetAction ==
    \/ get_action /\ UNCHANGED <<drv_vars, proj_vars, rm_vars, gne_vars, off_vars, on_vars, rp_vars, ls_vars, box_vars, st_vars, db_vars>>

SpecGetAction == InitGetAction /\ [][NextGetAction]_vars

\* two runs of the optimization driver with the same key
InitRepro ==
    /\ DrvIdle
    /\ ProjIdle
    /\ RollingMeanIdle
    /\ GuessIdle
    /\ OfflineIdle
    /\ OnlineIdle
    /\ GetActionIdle
    /\ ReproInit
    /\ LineSearchIdle
    /\ BoxIdle
    /\ StatusIdle
    /\ DashboardIdle

NextRepro ==
    \/ ReproStart /\ UNCHANGED <<drv_vars, proj_vars, rm_vars, gne_vars, off_vars, on_vars, ga_vars, ls_vars, box_vars, st_vars, db_vars>>
    \/ ReproIterate /\ UNCHANGED <<drv_vars, proj_vars, rm_vars, gne_vars, off_vars, on_vars, ga_vars, ls_vars, box_vars, st_vars, db_vars>>
    \/ ReproSecondRun /\ UNCHANGED <<drv_vars, proj_vars, rm_vars, gne_vars, off_vars, on_vars, ga_vars, ls_vars, box_vars, st_vars, db_vars>>

SpecRepro == InitRepro /\ [][NextRepro]_vars

\* one line-search update
InitLineSearch ==
    /\ DrvIdle
    /\ ProjIdle
    /\ RollingMeanIdle
    /\ GuessIdle
    /\ OfflineIdle
    /\ OnlineIdle
    /\ GetActionIdle
    /\ ReproIdle
    /\ LineSearchInit
    /\ BoxIdle
    /\ StatusIdle
    /\ DashboardIdle

NextLineSearch ==
    \/ line_search_init /\ UNCHANGED <<drv_vars, proj_vars, rm_vars, gne_vars, off_vars, on_vars, ga_vars, rp_vars, box_vars, st_vars, db_vars>>
    \/ line_search_trial /\ UNCHANGED <<drv_vars, proj_vars, rm_vars, gne_vars, off_vars, on_vars, ga_vars, rp_vars, box_vars, st_vars, db_vars>>
    \/ line_search_return /\ UNCHANGED <<drv_vars, proj_vars, rm_vars, gne_vars, off_vars, on_vars, ga_vars, rp_vars, box_vars, st_vars, db_vars>>

SpecLineSearch == InitLineSearch /\ [][NextLineSearch]_vars

\* the initializer and the projections on a plan with a non-boolean action
InitBox ==
    /\ DrvIdle
    /\ RollingMeanIdle
    /\ GuessIdle
    /\ OfflineIdle
    /\ OnlineIdle
    /\ GetActionIdle
    /\ ReproIdle
    /\ LineSearchIdle
    /\ BoxInit
    /\ StatusIdle
    /\ DashboardIdle

NextBox ==
    \/ _jax_wrapped_slp_init /\ UNCHANGED <<drv_vars, rm_vars, gne_vars, off_vars, on_vars, ga_vars, rp_vars, ls_vars, st_vars, db_vars>>
    \/ BoxProjection /\ UNCHANGED <<drv_vars, rm_vars, gne_vars, off_vars, on_vars, ga_vars, rp_vars, ls_vars, st_vars, db_vars>>
    \/ BoxSortingProjection /\ UNCHANGED <<drv_vars, rm_vars, gne_vars, off_vars, on_vars, ga_vars, rp_vars, ls_vars, st_vars, db_vars>>
    \/ BoxSogbofaProjection /\ UNCHANGED <<drv_vars, rm_vars, gne_vars, off_vars, on_vars, ga_vars, rp_vars, ls_vars, st_vars, db_vars>>

SpecBox == InitBox /\ [][NextBox]_vars

\* the status of the records, by planner class and projection
InitStatus ==
    /\ DrvIdle
    /\ ProjIdle
    /\ RollingMeanIdle
    /\ GuessIdle
    /\ OfflineIdle
    /\ OnlineIdle
    /\ GetActionIdle
    /\ ReproIdle
    /\ LineSearchIdle
    /\ BoxIdle
    /\ StatusInit
    /\ DashboardIdle

NextStatus ==
    \/ StatusIterate /\ UNCHANGED <<drv_vars, proj_vars, rm_vars, gne_vars, off_vars, on_vars, ga_vars, rp_vars, ls_vars, box_vars, db_vars>>

SpecStatus == InitStatus /\ [][NextStatus]_vars

\* the dashboard: registration of experiments and callbacks
InitDashboard ==
    /\ DrvIdle
    /\ ProjIdle
    /\ RollingMeanIdle
    /\ GuessIdle
    /\ OfflineIdle
    /\ OnlineIdle
    /\ GetActionIdle
    /\ ReproIdle
    /\ LineSearchIdle
    /\ BoxIdle
    /\ StatusIdle
    /\ DashboardInit

NextDashboard ==
    \/ register_experiment_call /\ UNCHANGED <<drv_vars, proj_vars, rm_vars, gne_vars, off_vars, on_vars, ga_vars, rp_vars, ls_vars, box_vars, st_vars>>
    \/ register_experiment_assign /\ UNCHANGED <<drv_vars, proj_vars, rm_vars, gne_vars, off_vars, on_vars, ga_vars, rp_vars, ls_vars, box_vars, st_vars>>
    \/ refresh_callback /\ UNCHANGED <<drv_vars, proj_vars, rm_vars, gne_vars, off_vars, on_vars, ga_vars, rp_vars, ls_vars, box_vars, st_vars>>
    \/ click_checkbox /\ UNCHANGED <<drv_vars, proj_vars, rm_vars, gne_vars, off_vars, on_vars, ga_vars, rp_vars, ls_vars, box_vars, st_vars>>

SpecDashboard == InitDashboard /\ [][NextDashboard]_vars

(***************************************************************************)
(* Properties of the optimization driver (specification Spec)              *)
(***************************************************************************)
FailureStatuses == {TIME_BUDGET_REACHED, ITER_BUDGET_REACHED, INVALID_GRADIENT}

Yielded == nrec > 0
RecTrainLoss == FNeg(rec.train_return)
RecTestLoss == FNeg(rec.test_return)
IsIterationStep == pc = "loop" /\ pc' = "yielded"

\* C1: is_failure() holds of exactly TIME_BUDGET_REACHED, ITER_BUDGET_REACHED
\* and INVALID_GRADIENT, and once a record with one of these statuses has
\* been yielded the generator runs no further iteration and yields no
\* further record: resuming it ends it.
C1_FailureStopsLoop ==
    /\ []({s \in DOMAIN JaxPlannerStatus : is_failure(s)} = FailureStatuses)
    /\ [][(Yielded /\ rec.status \in FailureStatuses)
            => (/\ nrec' = nrec /\ nupd' = nupd /\ rec' = rec
                /\ pc' \in {"done", "returned"})]_vars

C1_Witness ==
    /\ pc = "done" /\ rec.status = TIME_BUDGET_REACHED
    /\ rec.iteration = 0 /\ epochs > 1 /\ nrec = 1 /\ nupd = 1

\* C2: the status of every yielded record is that of the last test, in the
\* order time budget, iteration budget, non-finite train loss, all-zero
\* gradient, that holds in its iteration, and otherwise
\* PRECONDITION_POSSIBLY_UNSATISFIED or NORMAL according to the projection.
C2_StatusIsLastConditionThatHolds ==
    Yielded =>
        rec.status =
            IF rec.grad_zero THEN NO_PROGRESS
            ELSE IF ~isfinite(RecTrainLoss) THEN INVALID_GRADIENT
            ELSE IF rec.iteration >= epochs - 1 THEN ITER_BUDGET_REACHED
            ELSE IF rec.elapsed_time >= train_seconds THEN TIME_BUDGET_REACHED
            ELSE IF ~rec.converged THEN PRECONDITION_POSSIBLY_UNSATISFIED
            ELSE NORMAL

C2_Witness ==
    /\ pc = "yielded" /\ rec.status = ITER_BUDGET_REACHED
    /\ rec.elapsed_time >= train_seconds /\ ~rec.converged
    /\ isfinite(RecTrainLoss) /\ ~rec.grad_zero

\* C3: whenever the train loss of an iteration is not finite, its record has
\* status INVALID_GRADIENT and the loop runs no further iteration.
C3_NonFiniteLossStopsLoop ==
    (Yielded /\ ~isfinite(RecTrainLoss))
        => (rec.status = INVALID_GRADIENT /\ pc # "loop")

\* C4: in an iteration whose train loss is not finite, best_params and
\* best_return of the record are those held before the iteration (those of
\* the previous record, or the initial ones).
C4_InvalidIterationKeepsBest ==
    [][(IsIterationStep /\ ~isfinite(FNeg(rec'.train_return)))
        => (/\ rec'.best_params = best_params
            /\ rec'.best_return = FNeg(best_loss))]_vars

\* C5: if the elapsed time of an iteration (time spent by the caller between
\* records excluded) is >= train_seconds, no further iteration is started.
C5_TimeBudgetStopsLoop ==
    (Yielded /\ rec.elapsed_time >= train_seconds) => pc # "loop"

\* C6: when the projection did not converge and no halting test holds, the
\* record has status PRECONDITION_POSSIBLY_UNSATISFIED, and a record with
\* this status is always followed by the next iteration, which is within
\* the iteration budget.
C6_PreconditionDoesNotHalt ==
    /\ []((/\ Yielded /\ ~rec.converged /\ ~rec.grad_zero
           /\ isfinite(RecTrainLoss)
           /\ rec.iteration < epochs - 1
           /\ rec.elapsed_time < train_seconds)
          => rec.status = PRECONDITION_POSSIBLY_UNSATISFIED)
    /\ [][(pc = "yielded" /\ rec.status = PRECONDITION_POSSIBLY_UNSATISFIED)
            => (pc' = "loop" /\ it' = it + 1 /\ it' < epochs)]_vars

C6_Witness ==
    /\ pc = "loop" /\ it = rec.iteration + 1
    /\ rec.status = PRECONDITION_POSSIBLY_UNSATISFIED
    /\ ~rec.converged

\* C7: with epochs = N at most N records are yielded, with indices 0..N-1;
\* when N records have been yielded the last one has status
\* ITER_BUDGET_REACHED; for N = 1 optimize returns the parameters produced
\* by the single update.
C7_EpochsRecords ==
    /\ nrec <= epochs
    /\ Yielded => rec.iteration = nrec - 1
    /\ (pc \in {"done", "returned"} /\ nrec = epochs)
          => rec.status = ITER_BUDGET_REACHED
    /\ (pc = "returned" /\ epochs = 1)
          => (nrec = 1 /\ rec.status = ITER_BUDGET_REACHED
              /\ returned = <<rec.params>>)

\* C8: an iteration replaces the best checkpoint by the current parameters
\* exactly when its rolling-mean test loss is strictly below the best loss
\* so far, and otherwise leaves best_params, best_loss and
\* last_iteration_improved unchanged; best_return never decreases from one
\* record to the next.
C8_BestCheckpoint ==
    /\ [][IsIterationStep =>
            LET test_loss == FNeg(rec'.test_return) IN
            IF FLess(test_loss, best_loss)
            THEN /\ best_params' = policy_params'
                 /\ best_loss' = test_loss
                 /\ last_iter_improve' = it
            ELSE UNCHANGED <<best_params, best_loss, last_iter_improve>>]_vars
    /\ [][IsIterationStep =>
            /\ rec'.best_params = best_params'
            /\ rec'.best_return = FNeg(best_loss')
            /\ rec'.last_iteration_improved = last_iter_improve'
            /\ Yielded => ~FLess(rec'.best_return, rec.best_return)]_vars

C8_Witness ==
    /\ pc = "yielded" /\ rec.iteration = 1
    /\ rec.last_iteration_improved = 0
    /\ rec.best_params # rec.params
    /\ FEq(RecTestLoss, FNeg(rec.best_return))

(***************************************************************************)
(* Properties of the projections (specification SpecProj)                  *)
(***************************************************************************)
\* C9: after the sort-based projection at most allowed_actions boolean
\* entries are active at test time, whatever the parameters and the no-op
\* values.
C9_SortingProjectionFeasible ==
    ppc = "sorted" => ActiveCount(params) <= allowed_actions

\* C10: after the iterative projection reported success at most
\* allowed_actions boolean entries are active at test time.
C10_SogbofaProjectionFeasible ==
    (ppc = "sogbofa" /\ converged) => ActiveCount(params) <= allowed_actions

\* C11: projecting the output of a projection that reported success returns
\* exactly the same parameters and reports success again, for the sort-based
\* and for the iterative projection.
C11_ProjectionIdempotent ==
    [][(/\ ppc \in {"sorted", "sogbofa"} /\ converged
        /\ ppc' \in {"sorted_again", "sogbofa_again"})
        => (params' = params /\ converged')]_vars

C11_Witness ==
    /\ ppc = "sogbofa_again" /\ converged /\ params = in_params
    /\ allowed_actions = 1
    /\ SeqSum([i \in 1..NumBool |->
                 IF noop[i] THEN One - params[i] ELSE params[i]]) = One

(***************************************************************************)
(* Properties of RollingMean (specification SpecRollingMean)               *)
(***************************************************************************)
RECURSIVE FSum(_)
FSum(s) == IF s = <<>> THEN Fin(0) ELSE FAdd(Head(s), FSum(Tail(s)))

ArithmeticMean(s) == FDivInt(FSum(s), Len(s))

\* the same float: equal numbers, or both nan
SameFloat(a, b) == (a.k = "nan" /\ b.k = "nan") \/ FEq(a, b)

MostRecent(s, m) == SubSeq(s, Len(s) - m + 1, Len(s))

\* C12: the value returned by the n-th update is the arithmetic mean of the
\* most recent min(n, window_size) values fed; the memory never holds more
\* than window_size values and the running total equals the sum of the
\* values in memory.
C12_RollingMeanIsWindowMean ==
    Len(fed) > 0 =>
        /\ SameFloat(mean_value[1],
                     ArithmeticMean(MostRecent(fed,
                                       Min2(Len(fed), window_size))))
        /\ Len(_memory) <= window_size
        /\ SameFloat(_total, FSum(_memory))

(***************************************************************************)
(* Properties of guess_next_epoch (specification SpecGuess)                *)
(***************************************************************************)
\* C13: for the open-loop plan guess_next_epoch returns, for every tensor, a
\* table of the same length whose entry at step t is the input entry at step
\* t+1 and whose last entry is the last input entry; the input is not
\* modified; for the closed-loop policy it returns the parameters unchanged.
C13_GuessNextEpochShifts ==
    [][(gne_result = <<>> /\ gne_result' # <<>>) =>
        /\ gne_params' = gne_params
        /\ LET out == gne_result'[1]
           IN  IF gne_plan = "slp"
               THEN \A v \in TensorNames :
                      LET H == Len(gne_params[v])
                      IN  /\ Len(out[v]) = H
                          /\ \A t \in 1..(H - 1) :
                               out[v][t] = gne_params[v][t + 1]
                          /\ out[v][H] = gne_params[v][H]
               ELSE out = gne_params]_vars

C13_Witness ==
    /\ gne_plan = "slp"
    /\ gne_params["a"] = <<0, 1, 2>>
    /\ gne_result # <<>>
    /\ gne_result[1]["a"] = <<1, 2, 2>>

(***************************************************************************)
(* Properties of JaxOfflineController (specification SpecOffline)          *)
(***************************************************************************)
NumResets == Cardinality({i \in DOMAIN off_calls : off_calls[i] = "reset"})

\* the number of sample_action calls since construction or the last reset
RECURSIVE SamplesSinceReset(_)
SamplesSinceReset(calls) ==
    IF calls = <<>> \/ calls[Len(calls)] = "reset" THEN 0
    ELSE 1 + SamplesSinceReset(SubSeq(calls, 1, Len(calls) - 1))

IsOfflineSample == Len(off_queries') = Len(off_queries) + 1

IsOfflineReset ==
    Len(off_calls') = Len(off_calls) + 1 /\ ~IsOfflineSample

\* C14 as stated: without supplied parameters optimize is invoked exactly
\* once in total, at construction when train_on_reset is false and at the
\* first reset when it is true, and every sample_action after that uses the
\* parameters of that single optimization.
C14_OptimizeExactlyOnce ==
    (off_pc = "ready" /\ off_supplied = <<>>) =>
        /\ Len(off_optimized) <= 1
        /\ (~train_on_reset \/ NumResets >= 1) => Len(off_optimized) = 1
        /\ (train_on_reset /\ NumResets = 0) => Len(off_optimized) = 0
        /\ \A i \in DOMAIN off_queries :
             off_queries[i].optimized >= 1
                => off_queries[i].params = <<off_optimized[1]>>

\* C14 amended: without supplied parameters optimize is invoked once at
\* construction and never again when train_on_reset is false, and never at
\* construction but once at every reset when train_on_reset is true; every
\* sample_action made after an optimization uses the parameters of the most
\* recent optimization.
C14_OptimizeOncePerReset ==
    (off_pc = "ready" /\ off_supplied = <<>>) =>
        /\ Len(off_optimized) = (IF train_on_reset THEN NumResets ELSE 1)
        /\ \A i \in DOMAIN off_queries :
             off_queries[i].optimized >= 1
                => off_queries[i].params
                      = <<off_optimized[off_queries[i].optimized]>>

C14_Witness ==
    /\ off_supplied = <<>> /\ train_on_reset
    /\ off_calls = <<"reset", "reset", "sample_action">>
    /\ off_optimized = <<0, 1>>
    /\ off_queries[1].params = <<1>>

\* C15: the k-th sample_action call since construction or since the most
\* recent reset queries the policy with step index k-1; reset sets the step
\* index back to 0; sample_action never changes the stored parameters.
C15_StepIndexAdvances ==
    [][/\ IsOfflineSample =>
            /\ off_queries'[Len(off_queries')].step
                  = SamplesSinceReset(off_calls)
            /\ off_params' = off_params
       /\ IsOfflineReset => off_step' = 0]_vars

C15_Witness ==
    /\ off_calls = <<"sample_action", "sample_action", "reset",
                     "sample_action">>
    /\ off_queries[1].step = 0
    /\ off_queries[2].step = 1
    /\ off_queries[3].step = 0
    /\ off_step = 1

\* C16: with supplied parameters, for either value of train_on_reset,
\* optimize is never invoked and the stored parameters remain equal to the
\* supplied ones.
C16_SuppliedParamsKept ==
    (off_pc = "ready" /\ off_supplied # <<>>) =>
        /\ off_optimized = <<>>
        /\ off_params = off_supplied
        /\ \A i \in DOMAIN off_queries :
             off_queries[i].params = off_supplied

C16_Witness ==
    /\ off_supplied = <<1>> /\ train_on_reset
    /\ off_calls = <<"reset", "sample_action", "reset">>
    /\ off_params = <<1>>
    /\ off_optimized = <<>>

(***************************************************************************)
(* Properties of JaxOnlineController (specification SpecOnline)            *)
(***************************************************************************)
\* the positions in on_calls of the sample_action calls
SampleCalls == {i \in DOMAIN on_calls : on_calls[i].op = "sample_action"}

OptimizedAt(i) == {j \in DOMAIN on_optimized : on_optimized[j].call = i}

QueriesAt(i) == {j \in DOMAIN on_queries : on_queries[j].call = i}

\* C17: every sample_action call invokes optimize exactly once, with the
\* state passed to sample_action as subs, and then queries the action with
\* step index 0 and the parameters returned by that optimize call, whatever
\* the number of previous decision epochs.
C17_OptimizeEveryEpoch ==
    /\ \A i \in SampleCalls :
         /\ Cardinality(OptimizedAt(i)) = 1
         /\ Cardinality(QueriesAt(i)) = 1
         /\ \A j \in OptimizedAt(i), q \in QueriesAt(i) :
              /\ on_optimized[j].subs = on_calls[i].state
              /\ on_queries[q].step = 0
              /\ on_queries[q].params = on_optimized[j].result
              /\ on_queries[q].state = on_calls[i].state
    /\ \A i \in DOMAIN on_calls \ SampleCalls :
         OptimizedAt(i) = {} /\ QueriesAt(i) = {}

C17_Witness ==
    /\ Len(on_calls) = 3 /\ SampleCalls = {1, 2, 3}
    /\ on_calls[2].state # on_calls[3].state
    /\ on_optimized[3].subs = on_calls[3].state
    /\ on_optimized[2].result # on_optimized[3].result
    /\ on_queries[3].params = on_optimized[3].result
    /\ on_queries[3].step = 0

\* C18: the guess passed to optimize is None at the first sample_action
\* after construction and after every reset; with warm_start the guess at
\* each later epoch is guess_next_epoch of the parameters returned by the
\* immediately preceding epoch; without warm_start it is None at every epoch.
C18_WarmStartGuess ==
    \A j \in DOMAIN on_optimized :
        LET i == on_optimized[j].call
        IN  on_optimized[j].guess =
              IF i = 1 \/ on_calls[i - 1].op = "reset" \/ ~warm_start
              THEN <<>>
              ELSE <<plan_guess_next_epoch(on_plan,
                                           on_optimized[j - 1].result)>>

C18_Witness ==
    /\ warm_start /\ on_plan = "slp"
    /\ Len(on_calls) = 4 /\ SampleCalls = {1, 2, 4}
    /\ on_optimized[1].result["a"] = <<0, 1>>
    /\ on_optimized[2].guess # <<>>
    /\ on_optimized[2].guess[1]["a"] = <<1, 1>>
    /\ on_optimized[3].guess = <<>>

(***************************************************************************)
(* Properties of get_action (specification SpecGetAction)                  *)
(***************************************************************************)
Rejected(e) ==
    \/ e.fluent_sep \/ e.object_sep
    \/ /\ e.dtype = "other"
       /\ ~(ga_step = 0 /\ e.observ)

BothRunsDone == rp_run = 2 /\ rp_pc = "done"

SameRecord(r1, r2) ==
    /\ r1.status = r2.status
    /\ r1.iteration = r2.iteration
    /\ r1.params = r2.params
    /\ r1.best_params = r2.best_params

CommonRecords == 1..Min2(Len(rp_records[1]), Len(rp_records[2]))

TimeBudgetReached(recs) ==
    \E i \in DOMAIN recs : recs[i].elapsed_time >= rp_train_seconds

\* C20 as stated: two runs started with the same key and identical arguments
\* yield identical sequences of records: the same number of records, and the
\* same status, iteration index, params and best_params in each.
C20_SameKeySameRecords ==
    BothRunsDone =>
        /\ Len(rp_records[1]) = Len(rp_records[2])
        /\ \A i \in CommonRecords :
             SameRecord(rp_records[1][i], rp_records[2][i])

\* C20 amended: the records of the iterations both runs perform have the
\* same iteration index, params and best_params; when in neither run the
\* elapsed time reaches train_seconds, the two sequences of records are
\* identical (same number of records, same status in each).
C20_SameKeySameRecordsUpToTimeBudget ==
    BothRunsDone =>
        /\ \A i \in CommonRecords :
             /\ rp_records[1][i].iteration = rp_records[2][i].iteration
             /\ rp_records[1][i].params = rp_records[2][i].params
             /\ rp_records[1][i].best_params = rp_records[2][i].best_params
        /\ (~TimeBudgetReached(rp_records[1])
            /\ ~TimeBudgetReached(rp_records[2]))
             => /\ Len(rp_records[1]) = Len(rp_records[2])
                /\ \A i \in CommonRecords :
                     SameRecord(rp_records[1][i], rp_records[2][i])

C20_Witness ==
    /\ BothRunsDone
    /\ rp_guess = <<>>
    /\ Len(rp_records[1]) = 2 /\ Len(rp_records[2]) = 2
    /\ ~TimeBudgetReached(rp_records[1])
    /\ ~TimeBudgetReached(rp_records[2])
    /\ rp_records[1][1].params # rp_records[1][2].params
    /\ SameRecord(rp_records[1][2], rp_records[2][2])

(***************************************************************************)
(* Laziness of the driver (specification Spec)                             *)
(***************************************************************************)
\* C21: no update is performed before the caller requests the first record,
\* every record corresponds to exactly one completed iteration, and whenever
\* the caller holds (or stops at) the n-th record exactly n updates have been
\* performed.
C21_OneUpdatePerRecord ==
    /\ pc = "created" => (nupd = 0 /\ nrec = 0)
    /\ pc = "loop" => (nupd = nrec /\ nupd = it)
    /\ pc \in {"yielded", "done", "returned"} =>
           (nupd = nrec /\ rec.iteration = nrec - 1)

C21_Witness ==
    /\ pc = "yielded" /\ epochs > 1 /\ nrec = 1 /\ nupd = 1
    /\ ~is_failure(rec.status)

(***************************************************************************)
(* Properties of the line-search update                                    *)
(***************************************************************************)
FLeq(a, b) == FLess(a, b) \/ FEq(a, b)

\* the Armijo condition f_step <= f - c * step * gnorm2 of trial t
Armijo(t) == FLeq(t.f_step, FSub(ls_f, FMul(FMul(c, t.step), gnorm2)))

\* step_max * decay^j
DecayedStep(j) ==
    [k |-> "fin", n |-> lrmax.n * Pow(decay.n, j),
     d |-> lrmax.d * Pow(decay.d, j)]

\* C22: the trial step sizes are step_max * decay^j for j = 0, 1, 2, ... in
\* this order, each is >= step_min, no trial follows a trial that satisfies
\* the Armijo condition, the number of trials is bounded, and when the search
\* has stopped either its last trial satisfies the Armijo condition or the
\* next step size would be below step_min.
C22_StopsAtArmijoOrMinStep ==
    ls_pc \in {"loop", "returned"} =>
        /\ \A j \in 1..Len(trials) :
               /\ FEq(trials[j].step, DecayedStep(j - 1))
               /\ FGeq(trials[j].step, lrmin)
        /\ \A j \in 1..(Len(trials) - 1) : ~Armijo(trials[j])
        /\ Len(trials) <= MaxDecays + 1
        /\ ls_pc = "returned" =>
               \/ Len(trials) >= 1 /\ Armijo(trials[Len(trials)])
               \/ FLess(DecayedStep(Len(trials)), lrmin)

\* the earliest trial among those no other trial has a lower loss than
LowestTrial ==
    CHOOSE j \in 1..Len(trials) :
        /\ \A k \in 1..Len(trials) :
               ~FLess(trials[k].f_step, trials[j].f_step)
        /\ \A i \in 1..(j - 1) :
               \E k \in 1..Len(trials) :
                   FLess(trials[k].f_step, trials[i].f_step)

\* C23: the parameters, optimizer state and learning rate returned by one
\* update are those of the trial with the lowest loss among the trials
\* evaluated in that update, the earliest one on ties.
C23_ReturnsLowestTrial ==
    (ls_pc = "returned" /\ Len(trials) >= 1) =>
        /\ ls_returned[1].params = <<LowestTrial>>
        /\ ls_returned[1].opt_state = <<LowestTrial>>
        /\ ls_returned[1].learning_rate = <<trials[LowestTrial].step>>

\* C27: every update evaluates at least one trial, and the parameters and
\* optimizer state it returns are never None.
C27_NeverReturnsNone ==
    ls_pc = "returned" =>
        /\ Len(trials) >= 1
        /\ ls_returned[1].params # <<>>
        /\ ls_returned[1].opt_state # <<>>

(***************************************************************************)
(* Properties of the iterative projection                                  *)
(***************************************************************************)
AfterSogbofa == ppc \in {"sogbofa", "sogbofa_again"}

\* C24: the iterative projection ends after at most max_constraint_iter
\* surplus-subtraction steps, it reports success exactly when the surplus of
\* the parameters it returns is not positive, and it reports failure only at
\* the iteration cap.
C24_SogbofaTerminates ==
    AfterSogbofa =>
        /\ proj_iters <= max_constraint_iter
        /\ converged <=> ~(_jax_wrapped_sogbofa_surplus(params) > 0)
        /\ ~converged => proj_iters = max_constraint_iter

C24_Witness ==
    /\ ppc = "sogbofa"
    /\ ~converged
    /\ proj_iters = max_constraint_iter
    /\ params # _jax_wrapped_slp_project_to_box(in_params)

\* sum of the action values of the entries whose no-op value is false, plus
\* sum of one minus the action value of the entries whose no-op value is true
NonDefaultMass(ps) ==
    SeqSum([i \in DOMAIN ps |-> IF noop[i] THEN One - ps[i] ELSE ps[i]])

\* C26: whenever the iterative projection reports success, the total
\* non-default action mass of the boolean actions is at most K.
C26_SuccessBoundsMass ==
    (AfterSogbofa /\ converged) =>
        NonDefaultMass(params) <= allowed_actions * One

C26_Witness ==
    /\ ppc = "sogbofa"
    /\ converged
    /\ proj_iters >= 1
    /\ NonDefaultMass(_jax_wrapped_slp_project_to_box(in_params))
           > allowed_actions * One
    /\ \E i \in DOMAIN noop : noop[i]
    /\ \E i \in DOMAIN noop : ~noop[i]

(***************************************************************************)
(* Properties of the box constraints of the straight-line plan             *)
(***************************************************************************)
\* C25: after the initializer and after every projection (box-only,
\* sort-based, iterative) every boolean parameter lies between the
\* parameter values of min_action_prob and 1 - min_action_prob, and the
\* non-boolean parameter lies within its bounds, or is returned unchanged
\* when wrap_non_bool is set.
C25_BoxInvariant ==
    box_pc \in {"init", "box", "sorting", "sogbofa"} =>
        /\ \A i \in DOMAIN params :
               /\ _jax_bool_action_to_param(min_action) <= params[i]
               /\ params[i] <= _jax_bool_action_to_param(max_action)
        /\ IF wrap_non_bool THEN nb_param = nb_in
           ELSE NbLower <= nb_param /\ nb_param <= NbUpper

C25_Witness ==
    /\ box_pc = "sorting"
    /\ ~wrap_non_bool
    /\ nb_param # nb_in
    /\ \E i \in DOMAIN params :
           in_params[i] > _jax_bool_action_to_param(max_action)
    /\ params # _jax_wrapped_slp_project_to_box(in_params)

(***************************************************************************)
(* Properties of the status, by planner class and projection               *)
(***************************************************************************)
\* C28: a record carries PRECONDITION_POSSIBLY_UNSATISFIED only when the
\* planner is the fixed-step one and the plan uses the iterative projection.
C28_PreconditionStatusOnlyIterative ==
    (st_it > 0 /\ st_rec.status = PRECONDITION_POSSIBLY_UNSATISFIED) =>
        (planner = "JaxBackpropPlanner" /\ projection = "sogbofa")

C28_Witness ==
    /\ st_it > 0
    /\ st_rec.status = PRECONDITION_POSSIBLY_UNSATISFIED
    /\ planner = "JaxBackpropPlanner"
    /\ projection = "sogbofa"

(***************************************************************************)
(* Properties of the random stream of the online controller                *)
(***************************************************************************)
\* the subkeys the iterations of the j-th optimize call consume when it
\* runs n iterations
ConsumedBy(j, n) ==
    iteration_subkeys(
        optimize_loop_key(on_optimized[j].key, on_optimized[j].guess), n)

\* C29: no subkey consumed by a driver iteration of one decision epoch is
\* consumed again by a driver iteration of a later decision epoch, whatever
\* the number of iterations of the two epochs, with and without warm start.
C29_FreshSubkeysAcrossEpochs ==
    \A a, b \in DOMAIN on_optimized :
        a < b =>
            \A na, nb \in 1..MaxEpochs :
                ConsumedBy(a, na) \cap ConsumedBy(b, nb) = {}

(***************************************************************************)
(* Properties of the dashboard                                             *)
(***************************************************************************)
\* the per-experiment dictionaries the graph callbacks read
CallbackTables ==
    {"xticks", "train_return", "test_return", "return_dist",
     "return_dist_ticks", "action_output", "policy_params",
     "policy_params_ticks", "planner_info"}

\* C30: in every state a callback can see, every experiment id that has an
\* entry in checked has an entry in every other dictionary the callbacks
\* read, and no callback ends with a KeyError.
C30_CheckedRowsAreComplete ==
    /\ \A row \in DOMAIN checked :
           \A t \in CallbackTables : row \in tables[t]
    /\ cb_last.result # "KeyError"

====
